---- MODULE Spec2Model ----
(***************************************************************************)
(* Model of the agentic blog generation workflow of kliewerdaniel/rez05:   *)
(* BlogGenerationOrchestrator.generate_blog_post, its refinement loop, the *)
(* stage agents it awaits and the OllamaClient.chat retry loop.            *)
(*                                                                         *)
(* Text is modelled as a sequence of lines.  A line is a record            *)
(*   [tag, n, args]                                                        *)
(* where tag names what the line starts with (a heading marker, a verdict  *)
(* keyword, ordinary prose, ...), n is the number of whitespace-separated  *)
(* tokens on the line (what str.split() counts) and args are the numbers   *)
(* formatted into the line.  A blank line has n = 0.                       *)
(***************************************************************************)
EXTENDS Integers, Sequences, FiniteSets, TLC

VARIABLES
    pc,              \* position of generate_blog_post
    max_iterations,  \* self.max_iterations
    spec,            \* the GenerationSpec of the run (min_words, max_words)
    retriever_output,\* result of RetrieverAgent.search_and_synthesize
    draft,           \* the draft returned by compose_draft
    current_draft,   \* loop variable of _iterative_refinement_loop
    feedback,        \* loop variable of _iterative_refinement_loop
    iteration,       \* loop index of _iterative_refinement_loop (0-based)
    final_draft,     \* the draft handed to the ingestor
    result,          \* the WorkflowResult returned
    h,               \* history: how often each stage was invoked
    infra,           \* history: stages in which chat raised an OllamaError
    lastEval,        \* history: the most recent evaluate_draft call
    lastRefine,      \* history: the most recent refine_draft call
    fs,              \* the files of config.blog_dir: name -> content
    index,           \* the texts held by the vector store
    call             \* the function call under study: inputs and outcome

vars == <<pc, max_iterations, spec, retriever_output, draft, current_draft,
          feedback, iteration, final_draft, result, h, infra, lastEval,
          lastRefine, fs, index, call>>

-----------------------------------------------------------------------------
(* Bounds *)

\* largest iteration cap explored (config_override / --max-iterations)
MaxCap == 3

\* largest configured retry count explored (config.max_retries)
MaxRetries == 3

\* largest number of files in the blog directory before a write
MaxFiles == 3

\* longest document list handed to assemble_context_window
MaxDocs == 2

\* longest result list handed to _deduplicate_results and _rerank_results
MaxHits == 3

\* largest number of top-level headings in a validated draft
MaxTitles == 2

\* largest number of feeds listed in feeds.yaml
MaxFeeds == 3

-----------------------------------------------------------------------------
(* Program constants *)

max_retries == 3
retry_delay == 1
retry_backoff == 2

-----------------------------------------------------------------------------
(* Text *)

L(tag, n) == [tag |-> tag, n |-> n, args |-> <<>>]

RECURSIVE Words(_)
\* len(text.split())
Words(text) == IF text = <<>> THEN 0 ELSE text[1].n + Words(Tail(text))

RECURSIVE StripLeft(_)
StripLeft(text) ==
    IF text # <<>> /\ text[1].n = 0 THEN StripLeft(Tail(text)) ELSE text

RECURSIVE StripRight(_)
StripRight(text) ==
    IF text # <<>> /\ text[Len(text)].n = 0
    THEN StripRight(SubSeq(text, 1, Len(text) - 1))
    ELSE text

\* str.strip(): leading and trailing whitespace (blank lines) removed
Strip(text) == StripRight(StripLeft(text))

\* Python truthiness of a string
Truthy(text) == text # <<>>

\* str.upper() on the leading keyword of a line
Upper(tag) ==
    CASE tag = "approved" -> "APPROVED"
      [] tag = "Approved" -> "APPROVED"
      [] tag = "rejected" -> "REJECTED"
      [] tag = "Rejected" -> "REJECTED"
      [] OTHER -> tag

\* response.upper().startswith(kw)
UpperStartsWith(text, kw) == text # <<>> /\ Upper(text[1].tag) = kw

CountTag(text, tag) == Cardinality({i \in 1..Len(text) : text[i].tag = tag})

-----------------------------------------------------------------------------
(* OllamaClient.chat *)

\* what the endpoint does with one POST /api/chat
NetOutcomes == {"ok", "nomsg", "badjson", "timeout", "reqerr", "404", "500"}

\* the endpoint's behaviour over the attempts of one chat call
NetBehaviours == [1..max_retries -> NetOutcomes]

ChatText(text, requests, delays) ==
    [kind |-> "text", text |-> text, msg |-> "",
     requests |-> requests, delays |-> delays]

\* str(e) is modelled by the class of e; msg keeps the message for the reader
ChatRaise(kind, msg, requests, delays) ==
    [kind |-> kind, text |-> <<>>, msg |-> kind,
     requests |-> requests, delays |-> delays]

\* retry_backoff ** attempt
RECURSIVE Pow(_, _)
Pow(b, e) == IF e = 0 THEN 1 ELSE b * Pow(b, e - 1)

\* mutation of StatusError: every non-success status is a plain OllamaError
StatusError_generic(status) == "OllamaError"

\* the error raised for a response whose status_code is not 200
StatusError(status) ==
    IF status = "404" THEN "ModelNotFoundError" ELSE "OllamaError"

\* mutation of AttemptsLeft: the final attempt is retried as well
AttemptsLeft_always(attempt, n) == TRUE

\* `if attempt < config.max_retries - 1` of both except clauses
AttemptsLeft(attempt, n) == attempt < n - 1

\* variant: the same delay before every retry
Backoff_constant(attempt) == retry_delay

\* `delay = config.retry_delay * (config.retry_backoff ** attempt)`
Backoff(attempt) == retry_delay * Pow(retry_backoff, attempt)

\* the body of `for attempt in range(n)`, from iteration `attempt` on
RECURSIVE chatLoop(_, _, _, _, _)
chatLoop(attempt, n, net, body, delays) ==
    IF attempt >= n
    THEN \* the loop falls through: the function returns None
         [kind |-> "None", text |-> <<>>, msg |-> "",
          requests |-> attempt, delays |-> delays]
    ELSE LET o == net[attempt + 1]
             delay == Backoff(attempt)
         IN CASE o \in {"404", "500"} ->
                  ChatRaise(StatusError(o), "HTTP status",
                            attempt + 1, delays)
              [] o = "ok" -> ChatText(body, attempt + 1, delays)
              [] o = "nomsg" -> ChatText(<<>>, attempt + 1, delays)
              [] o = "badjson" ->
                  ChatRaise("JSONDecodeError", "Expecting value",
                            attempt + 1, delays)
              [] o = "timeout" ->
                  IF AttemptsLeft(attempt, n)
                  THEN chatLoop(attempt + 1, n, net, body,
                                Append(delays, delay))
                  ELSE ChatRaise("OllamaError",
                                 "Request timed out after all retries",
                                 attempt + 1, delays)
              [] o = "reqerr" ->
                  IF AttemptsLeft(attempt, n)
                  THEN chatLoop(attempt + 1, n, net, body,
                                Append(delays, delay))
                  ELSE ChatRaise("OllamaError",
                                 "Request failed after retries",
                                 attempt + 1, delays)

\* one call of llm_client.chat against an endpoint behaving as net and
\* answering a successful request with body
chat(net, body) == chatLoop(0, max_retries, net, body, <<>>)

\* the call raised an error of the OllamaError family
InfraError(r) == r.kind \in {"OllamaError", "ModelNotFoundError"}

-----------------------------------------------------------------------------
(* RetrieverAgent *)

RECURSIVE parseSynthesisLines(_, _, _, _)
\* the line loop of _parse_synthesis_response
parseSynthesisLines(lines, section, summary, excerpts) ==
    IF lines = <<>>
    THEN [summary |-> summary, excerpts |-> excerpts]
    ELSE LET line == lines[1]
             rest == Tail(lines)
         IN CASE line.n = 0 ->
                  parseSynthesisLines(rest, section, summary, excerpts)
              [] line.n > 0 /\ line.tag = "SUMMARY:" ->
                  \* the summary is the text after the colon, when any
                  parseSynthesisLines(rest, "summary",
                      IF line.n > 1 THEN <<L("text", line.n - 1)>>
                      ELSE summary,
                      excerpts)
              [] line.n > 0 /\ line.tag = "EXCERPTS:" ->
                  parseSynthesisLines(rest, "excerpts", summary, excerpts)
              [] line.n > 0 /\ line.tag \notin {"SUMMARY:", "EXCERPTS:"} ->
                  IF section = "summary"
                  THEN parseSynthesisLines(rest, section,
                                           Append(summary, line), excerpts)
                  ELSE IF section = "excerpts" /\ line.tag = "bullet"
                                               /\ line.n > 1
                  THEN parseSynthesisLines(rest, section, summary,
                           Append(excerpts, L("text", line.n - 1)))
                  ELSE parseSynthesisLines(rest, section, summary, excerpts)

\* RetrieverAgent._parse_synthesis_response
parse_synthesis_response(response) ==
    LET p == parseSynthesisLines(response, "none", <<>>, <<>>)
        summary == IF ~Truthy(p.summary) /\ p.excerpts = <<>>
                   THEN response ELSE p.summary
    IN [summary |-> Strip(summary),
        excerpts |-> SubSeq(p.excerpts, 1,
                            IF Len(p.excerpts) < 5 THEN Len(p.excerpts)
                            ELSE 5)]

\* RetrieverAgent.search_and_synthesize: docs is the number of documents
\* retrieve_relevant_context returned, r the outcome of the synthesis call
search_and_synthesize(docs, r) ==
    IF docs = 0
    THEN [summary |-> <<L("No relevant context found for", 6)>>,
          excerpts |-> <<>>, source_count |-> 0]
    ELSE IF r.kind = "text"
    THEN LET parsed == parse_synthesis_response(r.text)
         IN [summary |-> parsed.summary, excerpts |-> parsed.excerpts,
             source_count |-> docs]
    ELSE \* except Exception
         [summary |-> <<L("Error retrieving context for", 6)>>,
          excerpts |-> <<>>, source_count |-> 0]

-----------------------------------------------------------------------------
(* Drafts *)

DraftKeys == {"content", "word_count", "topic", "spec", "iteration"}

\* no draft (the variable is not bound yet)
NoDraft ==
    [keys |-> {}, content |-> <<>>, word_count |-> 0, iteration |-> 0,
     error |-> ""]

\* 'error' in draft
HasError(d) == "error" \in d.keys

\* draft.get('iteration', 1)
GetIteration(d) == IF "iteration" \in d.keys THEN d.iteration ELSE 1

-----------------------------------------------------------------------------
(* ComposerAgent *)

RECURSIVE dropFrontmatter(_, _)
\* the line loop of _clean_frontmatter_from_response over lines[1:]
dropFrontmatter(lines, in_frontmatter) ==
    IF lines = <<>> THEN <<>>
    ELSE IF lines[1].tag = "---"
    THEN dropFrontmatter(Tail(lines), FALSE)
    ELSE IF ~in_frontmatter
    THEN <<lines[1]>> \o dropFrontmatter(Tail(lines), in_frontmatter)
    ELSE dropFrontmatter(Tail(lines), in_frontmatter)

\* ComposerAgent._clean_frontmatter_from_response
clean_frontmatter_from_response(response) ==
    LET lines == Strip(response)
        cleaned == IF lines # <<>> /\ lines[1].tag = "---"
                   THEN dropFrontmatter(Tail(lines), TRUE) ELSE <<>>
    IN IF cleaned # <<>>
       THEN StripLeft(cleaned)
       ELSE IF lines # <<>> /\ lines[1].tag \notin {"h1", "h2", "h3"}
       THEN \* the first line is made the title
            <<L("h1", lines[1].n + 1), L("blank", 0)>> \o Tail(lines)
       ELSE lines

\* variant: a failed composition returns an empty draft without error field
compose_draft_swallow(r) ==
    [keys |-> DraftKeys,
     content |-> IF r.kind = "text"
                 THEN clean_frontmatter_from_response(r.text) ELSE <<>>,
     word_count |-> IF r.kind = "text" THEN Words(r.text) ELSE 0,
     iteration |-> 1,
     error |-> ""]

\* ComposerAgent.compose_draft, r the outcome of its model call
compose_draft(r) ==
    IF r.kind = "text"
    THEN [keys |-> DraftKeys,
          content |-> clean_frontmatter_from_response(r.text),
          word_count |-> Words(r.text),
          iteration |-> 1,
          error |-> ""]
    ELSE \* except Exception
         [keys |-> {"error", "topic", "spec"}, content |-> <<>>,
          word_count |-> 0, iteration |-> 0,
          error |-> IF r.kind = "None" THEN "AttributeError" ELSE r.msg]

-----------------------------------------------------------------------------
(* EvaluatorAgent *)

\* variant: the structure check without the title heading
check_structure_noh1(content) ==
    CountTag(content, "h2") >= 2 /\ Words(content) >= 100

\* EvaluatorAgent._check_structure
check_structure(content) ==
    LET has_h1 == CountTag(Strip(content), "h1") >= 1
        has_sections == CountTag(content, "h2") >= 2
        has_content_length == Words(content) >= 100
    IN has_h1 /\ has_sections /\ has_content_length

\* variant: the word-count check without the upper bound
check_word_count_minonly(word_count, sp) == sp.min_words <= word_count

\* EvaluatorAgent._check_word_count
check_word_count(word_count, sp) ==
    sp.min_words <= word_count /\ word_count <= sp.max_words

\* EvaluatorAgent._check_markdown_formatting
check_markdown_formatting(content) ==
    \E i \in 1..Len(content) : content[i].tag \in {"h1", "h2", "h3"}

\* EvaluatorAgent._perform_basic_validation; the feedback is the sequence
\* of the parts joined by "; "
perform_basic_validation(d, sp) ==
    LET checks == [structure |-> check_structure(d.content),
                   word_count |-> check_word_count(d.word_count, sp),
                   markdown |-> check_markdown_formatting(d.content)]
        parts ==
            (IF ~checks.word_count
             THEN <<[tag |-> "Word count not in range", n |-> 7,
                     args |-> <<d.word_count, sp.min_words, sp.max_words>>]>>
             ELSE <<>>)
            \o (IF ~checks.structure
                THEN <<L("Missing proper introduction, body, or conclusion sections", 7)>>
                ELSE <<>>)
            \o (IF ~checks.markdown
                THEN <<L("Markdown formatting issues detected", 4)>>
                ELSE <<>>)
    IN [passed |-> checks.structure /\ checks.word_count /\ checks.markdown,
        checks |-> checks,
        feedback |-> IF parts # <<>> THEN parts
                     ELSE <<L("All basic checks passed", 4)>>]

\* variant: an unparseable response is taken for an approval
UnparsedVerdict_open ==
    [approved |-> TRUE,
     feedback |-> <<L("Content meets quality standards", 4)>>]

\* the fallback branch of _parse_evaluation_response
UnparsedVerdict ==
    [approved |-> FALSE,
     feedback |-> <<L("Unable to determine approval status from evaluation response", 8)>>]

\* EvaluatorAgent._parse_evaluation_response
parse_evaluation_response(response) ==
    IF UpperStartsWith(response, "APPROVED")
    THEN [approved |-> TRUE,
          feedback |-> <<L("Content meets quality standards", 4)>>]
    ELSE IF UpperStartsWith(response, "REJECTED")
    THEN [approved |-> FALSE,
          feedback |-> IF Len(response) >= 2
                       THEN Strip(Tail(response))
                       ELSE <<L("Content needs improvement", 3)>>]
    ELSE UnparsedVerdict

\* variant: the model is consulted whatever the mechanical checks say
CallsModel_always(basic_checks) == TRUE

\* whether evaluate_draft issues its model call for this draft
CallsModel(basic_checks) == basic_checks.passed

\* EvaluatorAgent.evaluate_draft, r the outcome of its model call (used
\* only when the call is made)
evaluate_draft(d, sp, r) ==
    LET basic_checks == perform_basic_validation(d, sp)
    IN IF ~CallsModel(basic_checks)
       THEN [approved |-> FALSE, feedback |-> basic_checks.feedback,
             basic_passed |-> basic_checks.passed, llm_called |-> FALSE,
             response |-> <<>>, error |-> ""]
       ELSE IF r.kind = "text"
       THEN LET evaluation == parse_evaluation_response(r.text)
            IN [approved |-> evaluation.approved,
                feedback |-> evaluation.feedback,
                basic_passed |-> basic_checks.passed, llm_called |-> TRUE,
                response |-> r.text, error |-> ""]
       ELSE \* except Exception
            LET e == IF r.kind = "None" THEN "AttributeError" ELSE r.msg
            IN [approved |-> FALSE,
                feedback |-> <<L("Evaluation failed:", 2), L(e, 1)>>,
                basic_passed |-> basic_checks.passed, llm_called |-> TRUE,
                response |-> <<>>, error |-> e]

-----------------------------------------------------------------------------
(* RefinerAgent *)

RECURSIVE IndexOfTag(_, _, _)
\* index of the first line from position i on that carries tag, 0 if none
IndexOfTag(text, tag, i) ==
    IF i > Len(text) THEN 0
    ELSE IF text[i].tag = tag THEN i
    ELSE IndexOfTag(text, tag, i + 1)

\* the frontmatter refine_draft separates from the content: the lines up
\* to the second '---', followed by a blank line
Frontmatter(content) ==
    IF content # <<>> /\ content[1].tag = "---"
                      /\ IndexOfTag(content, "---", 2) # 0
    THEN SubSeq(content, 1, IndexOfTag(content, "---", 2))
         \o <<L("blank", 0)>>
    ELSE <<>>

\* variant: a refinement pass that does not count itself
RefinedDraft_keepiter(d, response) ==
    [keys |-> DraftKeys,
     content |-> Frontmatter(d.content) \o response,
     word_count |-> Words(response),
     iteration |-> GetIteration(d),
     error |-> ""]

\* the draft a successful refinement pass returns
RefinedDraft(d, response) ==
    [keys |-> DraftKeys,
     content |-> Frontmatter(d.content) \o response,
     word_count |-> Words(response),
     iteration |-> GetIteration(d) + 1,
     error |-> ""]

\* variant: a failed refinement pass returns only the error
refine_draft_destroy(d, r) ==
    IF r.kind = "text"
    THEN RefinedDraft(d, r.text)
    ELSE [keys |-> {"error"}, content |-> <<>>, word_count |-> 0,
          iteration |-> 1,
          error |-> IF r.kind = "None" THEN "AttributeError" ELSE r.msg]

\* RefinerAgent.refine_draft, r the outcome of its model call
refine_draft(d, r) ==
    IF r.kind = "text"
    THEN RefinedDraft(d, r.text)
    ELSE \* except Exception: {"error": ..., **draft}
         [d EXCEPT !.keys = d.keys \cup {"error"},
                   !.error = IF HasError(d) THEN d.error
                             ELSE IF r.kind = "None" THEN "AttributeError"
                             ELSE r.msg]

-----------------------------------------------------------------------------
(* utils/file_utils.py: the files of config.blog_dir *)

\* A file name is a record [date, slug, counter, backup]:
\*   "<date>-<slug>.md" has counter 0, "<date>-<slug>-<k>.md" has counter k,
\*   and backup counts the ".backup" suffixes before ".md".
\* A directory is a function from the names of its files to their content.
FileName(date, slug, counter) ==
    [date |-> date, slug |-> slug, counter |-> counter, backup |-> 0]

EmptyDir == [name \in {} |-> <<>>]

\* file_path = None
NoPath == FileName(0, 0, 0)

\* Path.exists() of config.blog_dir / filename
exists(dir, filename) == filename \in DOMAIN dir

\* file_path.with_suffix('.backup.md')
with_suffix_backup(filename) == [filename EXCEPT !.backup = @ + 1]

\* the directory with one file created or overwritten
put(dir, filename, content) == (filename :> content) @@ dir

\* shutil.move(src, dst)
move(dir, src, dst) ==
    [name \in (DOMAIN dir \ {src}) \cup {dst} |->
        IF name = dst THEN dir[src] ELSE dir[name]]

\* slugify(title): a title is known by the number of its words
slugify(title) == title

\* the value counter starts from in generate_filename
first_counter == 1

RECURSIVE generate_filename_loop(_, _, _, _, _)
\* the while loop of generate_filename
generate_filename_loop(dir, date, slug, filename, counter) ==
    IF exists(dir, filename)
    THEN generate_filename_loop(dir, date, slug,
                                FileName(date, slug, counter), counter + 1)
    ELSE filename

\* mutation of generate_filename: the base name without the collision check
generate_filename_base(dir, date, title) == FileName(date, slugify(title), 0)

\* generate_filename for a title on a date
generate_filename(dir, date, title) ==
    generate_filename_loop(dir, date, slugify(title),
                           FileName(date, slugify(title), 0), first_counter)

\* what write_blog_post writes: the frontmatter block, then the content
FileContent(title, content) == [title |-> title, content |-> content]

\* the file left by a write that fails after the frontmatter block
PartialContent(title) == [title |-> title, content |-> <<>>]

\* the points at which write_blog_post can fail: copying the backup,
\* opening the file, writing into the opened file
Faults == {"none", "copy", "open", "write"}

\* write_blog_post: the directory afterwards and what happened
write_blog_post(dir, filename, title, content, fault) ==
    LET backup_path == with_suffix_backup(filename)
        existed == exists(dir, filename)
        copied == IF existed THEN put(dir, backup_path, dir[filename])
                  ELSE dir
        opened == IF fault = "write"
                  THEN put(copied, filename, PartialContent(title))
                  ELSE copied
        restore == exists(opened, backup_path)
    IN IF existed /\ fault = "copy"
       THEN \* shutil.copy2 raises before the try block
            [dir |-> dir, raised |-> TRUE, made_backup |-> FALSE,
             restored |-> FALSE, error |-> "copy2"]
       ELSE IF fault \in {"open", "write"}
       THEN \* except Exception: restore the backup, raise
            [dir |-> IF restore THEN move(opened, backup_path, filename)
                     ELSE opened,
             raised |-> TRUE, made_backup |-> existed,
             restored |-> restore, error |-> "Failed to write blog post"]
       ELSE [dir |-> put(copied, filename, FileContent(title, content)),
             raised |-> FALSE, made_backup |-> existed,
             restored |-> FALSE, error |-> ""]

-----------------------------------------------------------------------------
(* IngestorAgent *)

\* the topic of every run
Topic == 0

\* IngestorAgent._extract_title: the text of the first "# " line, None (0)
\* when there is none or it has no text
RECURSIVE first_h1(_)
first_h1(text) ==
    IF text = <<>> THEN 0
    ELSE IF text[1].tag = "h1" THEN text[1].n - 1
    ELSE first_h1(Tail(text))

extract_title(content) == first_h1(Strip(content))

\* IngestorAgent.ingest_final_content on the directory dir, on the day
\* today, with write_blog_post failing as fault says
ingest_final_content(d, dir, today, fault) ==
    IF "content" \notin d.keys
    THEN \* final_draft['content'] raises KeyError
         [success |-> FALSE, file_path |-> NoPath,
          error |-> "KeyError", dir |-> dir, restored |-> FALSE,
          made_backup |-> FALSE]
    ELSE LET title == IF extract_title(d.content) # 0
                      THEN extract_title(d.content) ELSE Topic
             filename == generate_filename(dir, today, title)
             w == write_blog_post(dir, filename, title,
                                  StripLeft(d.content), fault)
         IN [success |-> ~w.raised, file_path |-> filename,
             error |-> w.error, dir |-> w.dir, restored |-> w.restored,
             made_backup |-> w.made_backup]

-----------------------------------------------------------------------------
(* BlogGenerationOrchestrator *)

\* the word_counts table of generate_blog_post
word_counts(length) ==
    CASE length = "short" -> [min_words |-> 600, max_words |-> 1000]
      [] length = "medium" -> [min_words |-> 1000, max_words |-> 1500]
      [] length = "long" -> [min_words |-> 1500, max_words |-> 2500]
      [] OTHER -> [min_words |-> 1000, max_words |-> 1500]

\* the WorkflowResult dataclass with its defaults
WorkflowResult(success, content, path, iterations, status, error) ==
    [success |-> success, final_content |-> content,
     file_path |-> path, iterations |-> iterations,
     approval_status |-> status, error |-> error]

\* variant: a failed run that reports approval
Failure_approved(error, iterations) ==
    WorkflowResult(FALSE, NoDraft, NoPath, iterations, "approved", error)

\* the result of a run that failed: every other field at its default
Failure(error, iterations) ==
    WorkflowResult(FALSE, NoDraft, NoPath, iterations, "pending", error)

\* the result of a run whose ingestion succeeded
Success(d, file_path) ==
    WorkflowResult(TRUE, d, file_path, GetIteration(d), "approved", "")

\* `if not retriever_output.get('summary')`
RetrievalFailed(out) == ~Truthy(out.summary)

\* variant: the error field of the composed draft is not looked at
ComposeFailed_never(d) == FALSE

\* `if 'error' in draft` after composition
ComposeFailed(d) == HasError(d)

\* variant: the loop runs one iteration more than the cap
LoopContinues_offbyone(it, cap) == it <= cap

\* `for iteration in range(self.max_iterations)`: the body runs for it
LoopContinues(it, cap) == it < cap

NoFeedback == [none |-> TRUE, text |-> <<>>]

\* `if feedback and iteration > 0`
ShouldRefine(fb, it) == ~fb.none /\ Truthy(fb.text) /\ it > 0

\* variant: the fallback to the initial draft is taken unconditionally
FinalDraft_initial(loop_result, d) == d

\* `if not final_draft: final_draft = draft`
FinalDraft(loop_result, d) ==
    IF loop_result.keys = {} THEN d ELSE loop_result

-----------------------------------------------------------------------------
(* The environment: what the model endpoint and the index may answer *)

Article(w) ==
    <<L("h1", 3), L("blank", 0), L("text", w), L("h2", 3), L("text", w),
      L("h2", 3), L("text", w)>>

Stub == <<L("h1", 3), L("text", 40)>>

WithFrontmatter ==
    <<L("---", 1), L("text", 4), L("---", 1), L("blank", 0)>> \o Article(250)

\* completions of the composer's prompt
ComposeResponses == {Article(400), Stub, WithFrontmatter}

\* completions of the refiner's prompt
RefineResponses == {Article(400), Stub}

\* completions of the evaluator's prompt
EvalResponses ==
    {<<L("APPROVED", 1)>>,
     <<L("approved", 3)>>,
     <<L("REJECTED", 1), L("text", 12)>>,
     <<L("REJECTED", 1)>>,
     <<L("REJECTED", 1), L("blank", 0)>>,
     <<L("blank", 0), L("APPROVED", 1)>>}

\* completions of the retriever's synthesis prompt
SynthResponses ==
    {<<L("SUMMARY:", 5), L("EXCERPTS:", 1), L("bullet", 4)>>,
     <<L("EXCERPTS:", 1), L("bullet", 3)>>}

Lengths == {"short", "medium"}

\* the outcomes of one chat call over every endpoint behaviour
ChatOutcomes(bodies) == {chat(net, body) : net \in NetBehaviours, body \in bodies}

SynthChats == ChatOutcomes(SynthResponses)

ComposeChats == ChatOutcomes(ComposeResponses)

RefineChats == ChatOutcomes(RefineResponses)

EvalChats == ChatOutcomes(EvalResponses)

-----------------------------------------------------------------------------
(* State machine *)

\* the day of the run
Today == 1

\* the posts the vector store was built from
IndexedPosts == {Article(300)}

\* no function call under study
NoCall == [fn |-> "none"]

NoEval ==
    [approved |-> FALSE, feedback |-> <<>>, basic_passed |-> FALSE,
     llm_called |-> FALSE, response |-> <<>>, error |-> ""]

NoRefine ==
    [since |-> 0, feedback |-> NoFeedback, output |-> NoDraft,
     failed |-> FALSE]

Init ==
    /\ pc = "retrieve"
    /\ max_iterations \in 0..MaxCap
    /\ \E length \in Lengths : spec = word_counts(length)
    /\ retriever_output = [summary |-> <<>>, excerpts |-> <<>>,
                           source_count |-> 0]
    /\ draft = NoDraft
    /\ current_draft = NoDraft
    /\ feedback = NoFeedback
    /\ iteration = 0
    /\ final_draft = NoDraft
    /\ result = Failure("", 0)
    /\ h = [retrieve |-> 0, compose |-> 0, refine |-> 0, evaluate |-> 0,
            ingest |-> 0, refined_ok |-> 0, retrieval_error |-> "",
            exhausted |-> FALSE]
    /\ infra = {}
    /\ lastEval = NoEval
    /\ lastRefine = NoRefine
    /\ fs = EmptyDir
    /\ index = IndexedPosts
    /\ call = NoCall

\* Phase 1: retriever.search_and_synthesize and the check of its summary
Retrieve ==
    /\ pc = "retrieve"
    /\ \E index_ok \in BOOLEAN, r \in SynthChats :
         LET docs == IF index_ok THEN 2 ELSE 0
             out == search_and_synthesize(docs, r)
         IN /\ retriever_output' = out
            /\ h' = [h EXCEPT !.retrieve = @ + 1,
                              !.retrieval_error =
                                  IF ~index_ok THEN "index"
                                  ELSE IF r.kind # "text" THEN "synthesis"
                                  ELSE ""]
            /\ infra' = IF docs > 0 /\ InfraError(r)
                        THEN infra \cup {"retrieve"} ELSE infra
            /\ IF RetrievalFailed(out)
               THEN /\ pc' = "done"
                    /\ result' = Failure("Failed to retrieve relevant context", 0)
               ELSE /\ pc' = "compose"
                    /\ UNCHANGED result
    /\ UNCHANGED <<fs, index, call>>
    /\ UNCHANGED <<max_iterations, spec, draft, current_draft, feedback,
                   iteration, final_draft, lastEval, lastRefine>>

\* Phase 2: composer.compose_draft, then the entry of the refinement loop
Compose ==
    /\ pc = "compose"
    /\ \E r \in ComposeChats :
         LET d == compose_draft(r)
         IN /\ draft' = d
            /\ h' = [h EXCEPT !.compose = @ + 1]
            /\ infra' = IF InfraError(r) THEN infra \cup {"compose"} ELSE infra
            /\ IF ComposeFailed(d)
               THEN /\ pc' = "done"
                    /\ result' = Failure("Composition failed", 0)
                    /\ UNCHANGED current_draft
               ELSE /\ current_draft' = d
                    /\ pc' = IF LoopContinues(0, max_iterations)
                             THEN "iter" ELSE "exhausted"
                    /\ UNCHANGED result
    /\ feedback' = NoFeedback
    /\ iteration' = 0
    /\ UNCHANGED <<fs, index, call>>
    /\ UNCHANGED <<max_iterations, spec, retriever_output, final_draft,
                   lastEval, lastRefine>>

\* the refinement branch of one loop iteration
Refine ==
    /\ pc = "iter"
    /\ ShouldRefine(feedback, iteration)
    /\ \E r \in RefineChats :
         LET refined == refine_draft(current_draft, r)
         IN /\ current_draft' = refined
            /\ infra' = IF InfraError(r) THEN infra \cup {"refine"} ELSE infra
            /\ lastRefine' = [since |-> lastRefine.since + 1,
                              feedback |-> feedback,
                              output |-> refined,
                              failed |-> r.kind # "text"]
            /\ h' = [h EXCEPT !.refine = @ + 1,
                              !.refined_ok = IF r.kind = "text" THEN @ + 1
                                             ELSE @]
    /\ pc' = "eval"
    /\ UNCHANGED <<fs, index, call>>
    /\ UNCHANGED <<max_iterations, spec, retriever_output, draft, feedback,
                   iteration, final_draft, result, lastEval>>

\* a loop iteration that does not refine
SkipRefine ==
    /\ pc = "iter"
    /\ ~ShouldRefine(feedback, iteration)
    /\ pc' = "eval"
    /\ UNCHANGED <<fs, index, call>>
    /\ UNCHANGED <<max_iterations, spec, retriever_output, draft,
                   current_draft, feedback, iteration, final_draft, result,
                   h, infra, lastEval, lastRefine>>

\* variant: the loop ignores the evaluator's approval
Approved_never(ev) == FALSE

\* the loop's test of the verdict: evaluation.get('approved', False)
Approved(ev) == ev.approved

\* the evaluation of one loop iteration and the loop's decision
Evaluate ==
    /\ pc = "eval"
    /\ \E r \in EvalChats :
         LET ev == evaluate_draft(current_draft, spec, r)
         IN /\ lastEval' = [approved |-> ev.approved,
                            feedback |-> ev.feedback,
                            basic_passed |-> ev.basic_passed,
                            llm_called |-> ev.llm_called,
                            response |-> ev.response, error |-> ev.error]
            /\ infra' = IF ev.llm_called /\ InfraError(r)
                        THEN infra \cup {"evaluate"} ELSE infra
            /\ IF Approved(ev)
               THEN /\ final_draft' = FinalDraft(current_draft, draft)
                    /\ pc' = "ingest"
                    /\ UNCHANGED <<feedback, iteration>>
               ELSE /\ feedback' = [none |-> FALSE, text |-> ev.feedback]
                    /\ iteration' = iteration + 1
                    /\ pc' = IF LoopContinues(iteration + 1, max_iterations)
                             THEN "iter" ELSE "exhausted"
                    /\ UNCHANGED final_draft
    /\ h' = [h EXCEPT !.evaluate = @ + 1]
    /\ lastRefine' = [lastRefine EXCEPT !.since = 0]
    /\ UNCHANGED <<fs, index, call>>
    /\ UNCHANGED <<max_iterations, spec, retriever_output, draft,
                   current_draft, result>>

\* the loop ends without approval and returns current_draft
Exhausted ==
    /\ pc = "exhausted"
    /\ final_draft' = FinalDraft(current_draft, draft)
    /\ h' = [h EXCEPT !.exhausted = TRUE]
    /\ pc' = "ingest"
    /\ UNCHANGED <<fs, index, call>>
    /\ UNCHANGED <<max_iterations, spec, retriever_output, draft,
                   current_draft, feedback, iteration, result, infra,
                   lastEval, lastRefine>>

\* Phase 4: ingestor.ingest_final_content and the WorkflowResult
Ingest ==
    /\ pc = "ingest"
    /\ \E fault \in Faults \ {"copy"} :
         LET ingestion_result ==
                 ingest_final_content(final_draft, fs, Today, fault)
         IN /\ fs' = ingestion_result.dir
            /\ result' = IF ~ingestion_result.success
                         THEN Failure("Ingestion failed",
                                      GetIteration(final_draft))
                         ELSE Success(final_draft,
                                      ingestion_result.file_path)
    /\ h' = [h EXCEPT !.ingest = @ + 1]
    /\ pc' = "done"
    /\ UNCHANGED <<index, call>>
    /\ UNCHANGED <<max_iterations, spec, retriever_output, draft,
                   current_draft, feedback, iteration, final_draft, infra,
                   lastEval, lastRefine>>

Next ==
    \/ Retrieve
    \/ Compose
    \/ Refine
    \/ SkipRefine
    \/ Evaluate
    \/ Exhausted
    \/ Ingest

Spec == Init /\ [][Next]_vars

\* The refinement loop on its own: one call of _iterative_refinement_loop
\* on a draft the composer returned without error, up to its return.
LoopInit ==
    /\ max_iterations \in 0..MaxCap
    /\ \E length \in Lengths : spec = word_counts(length)
    /\ retriever_output =
           search_and_synthesize(2,
               ChatText(<<L("SUMMARY:", 5), L("EXCERPTS:", 1), L("bullet", 4)>>,
                        1, <<>>))
    /\ \E r \in ComposeChats :
         /\ ~ComposeFailed(compose_draft(r))
         /\ draft = compose_draft(r)
    /\ current_draft = draft
    /\ feedback = NoFeedback
    /\ iteration = 0
    /\ pc = IF LoopContinues(0, max_iterations) THEN "iter" ELSE "exhausted"
    /\ final_draft = NoDraft
    /\ result = Failure("", 0)
    /\ h = [retrieve |-> 1, compose |-> 1, refine |-> 0, evaluate |-> 0,
            ingest |-> 0, refined_ok |-> 0, retrieval_error |-> "",
            exhausted |-> FALSE]
    /\ infra = {}
    /\ lastEval = NoEval
    /\ lastRefine = NoRefine
    /\ fs = EmptyDir
    /\ index = IndexedPosts
    /\ call = NoCall

LoopNext ==
    \/ Refine
    \/ SkipRefine
    \/ Evaluate
    \/ Exhausted

LoopSpec == LoopInit /\ [][LoopNext]_vars

\* every awaited call returns or raises within the client's retry budget,
\* so a loop that can take a step eventually takes it
LoopFairSpec == LoopSpec /\ WF_vars(LoopNext)

-----------------------------------------------------------------------------
(* One call of OllamaClient.chat, for every configured retry count *)

\* the workflow's variables, which the function-level specifications leave
\* at their initial values
WorkflowIdle ==
    /\ pc = "idle"
    /\ max_iterations = 0
    /\ spec = word_counts("short")
    /\ retriever_output = [summary |-> <<>>, excerpts |-> <<>>,
                           source_count |-> 0]
    /\ draft = NoDraft
    /\ current_draft = NoDraft
    /\ feedback = NoFeedback
    /\ iteration = 0
    /\ final_draft = NoDraft
    /\ result = Failure("", 0)
    /\ h = [retrieve |-> 0, compose |-> 0, refine |-> 0, evaluate |-> 0,
            ingest |-> 0, refined_ok |-> 0, retrieval_error |-> "",
            exhausted |-> FALSE]
    /\ infra = {}
    /\ lastEval = NoEval
    /\ lastRefine = NoRefine

workflow_vars ==
    <<pc, max_iterations, spec, retriever_output, draft, current_draft,
      feedback, iteration, final_draft, result, h, infra, lastEval,
      lastRefine>>

\* the timeout and connection failures the except clauses catch
Transient == {"timeout", "reqerr"}

ChatInit ==
    /\ WorkflowIdle
    /\ fs = EmptyDir
    /\ index = IndexedPosts
    /\ \E n \in 0..MaxRetries, net \in [1..MaxRetries -> NetOutcomes] :
         call = [fn |-> "chat", n |-> n, net |-> net, done |-> FALSE,
                 out |-> ChatText(<<>>, 0, <<>>)]

\* the call runs to its end
ChatCall ==
    /\ call.fn = "chat"
    /\ ~call.done
    /\ call' = [call EXCEPT
                  !.done = TRUE,
                  !.out = chatLoop(0, call.n, call.net,
                                   <<L("text", 5)>>, <<>>)]
    /\ UNCHANGED <<workflow_vars, fs, index>>

ChatSpec == ChatInit /\ [][ChatCall]_vars

\* all attempts before attempt a met a timeout or a connection failure
TransientBefore(a) == \A b \in 1..(a - 1) : call.net[b] \in Transient

\* C11: one call sends at most max_retries requests; a timeout or connection
\* failure on a non-final attempt is followed by another attempt, and one on
\* the final attempt ends the call with an OllamaError and no further request
C11_RetriesWithinBudget ==
    (call.fn = "chat" /\ call.done) =>
        /\ call.out.requests <= call.n
        /\ \A a \in 1..call.n :
             (TransientBefore(a) /\ call.net[a] \in Transient) =>
                 IF a < call.n
                 THEN call.out.requests > a
                 ELSE /\ call.out.requests = a
                      /\ call.out.kind = "OllamaError"

\* a call that retried twice and failed on its final attempt
C11_Witness ==
    /\ call.fn = "chat" /\ call.done
    /\ call.n = 3
    /\ call.out.requests = 3
    /\ call.out.kind = "OllamaError"
    /\ \A a \in 1..3 : call.net[a] \in Transient

\* C12: a non-success status is never retried: 404 ends the call with
\* ModelNotFoundError, any other status with OllamaError, and the request
\* that got the status is the last one, whatever attempts remain
C12_StatusNeverRetried ==
    (call.fn = "chat" /\ call.done) =>
        \A a \in 1..call.n :
            (TransientBefore(a) /\ call.net[a] \in {"404", "500"}) =>
                /\ call.out.requests = a
                /\ call.out.kind = IF call.net[a] = "404"
                                   THEN "ModelNotFoundError"
                                   ELSE "OllamaError"

\* a 404 on the first of three attempts
C12_Witness ==
    /\ call.fn = "chat" /\ call.done
    /\ call.n = 3
    /\ call.net[1] = "404"
    /\ call.out.requests = 1
    /\ call.out.kind = "ModelNotFoundError"

\* C13: every call ends by returning a text completion or by raising an
\* error of the OllamaError family, for every configured retry count
C13_TextOrOllamaError ==
    (call.fn = "chat" /\ call.done) =>
        call.out.kind \in {"text", "OllamaError", "ModelNotFoundError"}

\* C24: the delay before the k-th retry is retry_delay * retry_backoff^(k-1),
\* each delay is the previous one times the backoff factor, one delay is
\* taken before every request but the first, and none after the last
C24_ExponentialBackoff ==
    (call.fn = "chat" /\ call.done) =>
        LET delays == call.out.delays
        IN /\ \A k \in 1..Len(delays) :
                 delays[k] = retry_delay * Pow(retry_backoff, k - 1)
           /\ \A k \in 1..(Len(delays) - 1) :
                 delays[k + 1] = delays[k] * retry_backoff
           /\ Len(delays) = IF call.out.requests = 0 THEN 0
                            ELSE call.out.requests - 1

\* two retries, then a failure on the final attempt: delays 1 and 2
C24_Witness ==
    /\ call.fn = "chat" /\ call.done
    /\ call.n = 3
    /\ call.net[1] = "timeout" /\ call.net[2] = "reqerr"
    /\ call.net[3] = "timeout"
    /\ call.out.delays = <<1, 2>>
    /\ call.out.kind = "OllamaError"

-----------------------------------------------------------------------------
(* Persistence: runs that reach the ingestor and `generate --output` writes, *)
(* one after another on the same blog directory                             *)

\* the days on which posts are written
Days == {1, 2}

\* contents of final drafts: one with a two-word H1 title, one without H1
PostTexts == {Article(400), <<L("text", 50)>>}

FinalDrafts ==
    {[keys |-> DraftKeys, content |-> c, word_count |-> Words(c),
      iteration |-> 1, error |-> ""] : c \in PostTexts} \cup {NoDraft}

\* Path(output).name of `generate --output`: any file name
CliTargets ==
    [date : {Today}, slug : {Topic}, counter : 0..1, backup : 0..1]

NoWrite ==
    [fn |-> "persist", op |-> "none", filename |-> NoPath, pre |-> EmptyDir,
     raised |-> FALSE, made_backup |-> FALSE, restored |-> FALSE]

PersistInit ==
    /\ WorkflowIdle
    /\ fs = EmptyDir
    /\ index = IndexedPosts
    /\ call = NoWrite

\* one run's IngestorAgent.ingest_final_content
IngestCall ==
    /\ call.fn = "persist"
    /\ Cardinality(DOMAIN fs) < MaxFiles
    /\ \E d \in FinalDrafts, today \in Days, fault \in Faults \ {"copy"} :
         LET r == ingest_final_content(d, fs, today, fault)
         IN /\ fs' = r.dir
            /\ call' = [fn |-> "persist",
                        op |-> IF "content" \in d.keys THEN "ingest"
                               ELSE "nocontent",
                        filename |-> r.file_path, pre |-> fs,
                        raised |-> ~r.success,
                        made_backup |-> r.made_backup,
                        restored |-> r.restored]
    /\ UNCHANGED <<workflow_vars, index>>

\* cli.py generate --output: write_blog_post on the name the user gave
CliWrite ==
    /\ call.fn = "persist"
    /\ Cardinality(DOMAIN fs) < MaxFiles
    /\ \E target \in CliTargets, c \in PostTexts, fault \in Faults :
         /\ fault = "copy" => exists(fs, target)
         /\ LET w == write_blog_post(fs, target, Topic, c, fault)
            IN /\ fs' = w.dir
               /\ call' = [fn |-> "persist", op |-> "cli",
                           filename |-> target, pre |-> fs,
                           raised |-> w.raised,
                           made_backup |-> w.made_backup,
                           restored |-> w.restored]
    /\ UNCHANGED <<workflow_vars, index>>

PersistNext ==
    \/ IngestCall
    \/ CliWrite

PersistSpec == PersistInit /\ [][PersistNext]_vars

\* the last step was a write_blog_post call that raised
WriteFailed == call.fn = "persist" /\ call.op \in {"ingest", "cli"} /\ call.raised

\* C14: when the write fails, a file that existed at the target path holds
\* its pre-call content afterwards, and nothing is restored when the call
\* made no backup
C14_FailedWriteRestoresOnlyOwnBackup ==
    WriteFailed =>
        /\ call.filename \in DOMAIN call.pre =>
               /\ call.filename \in DOMAIN fs
               /\ fs[call.filename] = call.pre[call.filename]
        /\ ~call.made_backup => ~call.restored

\* C15: the name the ingestor writes to is free before the call and is the
\* base name or carries the smallest free suffix counting from 1; the call
\* replaces the content of no file, and when it succeeds it adds exactly
\* the new file to the directory
C15_GeneratedNameIsFree ==
    (call.fn = "persist" /\ call.op = "ingest") =>
        LET f == call.filename
        IN /\ f \notin DOMAIN call.pre
           /\ f.backup = 0
           /\ \A k \in 0..(f.counter - 1) :
                  [f EXCEPT !.counter = k] \in DOMAIN call.pre
           /\ \A name \in DOMAIN call.pre \cap DOMAIN fs :
                  fs[name] = call.pre[name]
           /\ ~call.raised =>
                  /\ DOMAIN fs = DOMAIN call.pre \cup {f}
                  /\ \A name \in DOMAIN call.pre : fs[name] = call.pre[name]

\* an ingest that found the base name and suffix 1 taken and wrote suffix 2
C15_Witness ==
    /\ call.fn = "persist" /\ call.op = "ingest"
    /\ ~call.raised
    /\ call.filename.counter = 2
    /\ call.filename \in DOMAIN fs

-----------------------------------------------------------------------------
(* retrieval.py: assemble_context_window, in character counts *)

\* A piece of text is known by its length and by how much whitespace it
\* starts and ends with: [len, lead, trail].  A document is
\* [source, date, len]: the length of its title, the length of the month
\* name of its date (0 without date metadata) and the length of its
\* stripped page_content.
Piece(len, lead, trail) == [len |-> len, lead |-> lead, trail |-> trail]

ESTIMATED_CHARS_PER_TOKEN == 4

\* len(f"\n## From: {source}\n")
HeaderLen(source) == 10 + source + 1

\* len(f" ({post_date})") for strftime("%B %Y")
DateLen(month) == 2 + month + 1 + 4 + 1

\* len("\n\n---\n\n")
SeparatorLen == 7

\* len("...\n")
MarkerLen == 4

\* len("No relevant context found.")
NoContextLen == 26

\* number of decimal digits of k
RECURSIVE Digits(_)
Digits(k) == IF k < 10 THEN 1 ELSE 1 + Digits(k \div 10)

\* len(stats) of the statistics line
StatsLen(sources, total_chars) ==
    2 + 27 + Digits(sources) + 10 + Digits(total_chars) + 15

RECURSIVE SumLen(_)
SumLen(parts) ==
    IF parts = <<>> THEN 0 ELSE parts[1].len + SumLen(Tail(parts))

\* whitespace at the start of "".join(parts)
RECURSIVE LeadWs(_)
LeadWs(parts) ==
    IF parts = <<>> THEN 0
    ELSE IF parts[1].lead = parts[1].len
    THEN parts[1].len + LeadWs(Tail(parts))
    ELSE parts[1].lead

\* whitespace at the end of "".join(parts)
RECURSIVE TrailWs(_)
TrailWs(parts) ==
    IF parts = <<>> THEN 0
    ELSE LET last == parts[Len(parts)]
         IN IF last.trail = last.len
            THEN last.len + TrailWs(SubSeq(parts, 1, Len(parts) - 1))
            ELSE last.trail

\* len("".join(parts).strip())
JoinStripLen(parts) ==
    IF LeadWs(parts) >= SumLen(parts) THEN 0
    ELSE SumLen(parts) - LeadWs(parts) - TrailWs(parts)

\* variant: the overflowing document is truncated however little is left
Meaningful_always(remaining_chars) == TRUE

\* `if remaining_chars > 100:  # Only include if meaningful`
Meaningful(remaining_chars) == remaining_chars > 100

\* the for loop of assemble_context_window from document i on
RECURSIVE context_loop(_, _, _, _, _, _)
context_loop(results, i, max_chars, parts, included, total_chars) ==
    IF i > Len(results)
    THEN [parts |-> parts, included |-> included, total |-> total_chars]
    ELSE
    LET doc == results[i]
        new_source == doc.source \notin included
        over_header == new_source
                       /\ total_chars + HeaderLen(doc.source) > max_chars
        header == HeaderLen(doc.source)
                  + IF doc.date # 0 THEN DateLen(doc.date) ELSE 0
        parts1 == IF new_source THEN Append(parts, Piece(header, 1, 1))
                  ELSE parts
        total1 == IF new_source THEN total_chars + header ELSE total_chars
        included1 == included \cup {doc.source}
        remaining_chars == max_chars - total1 - 50
        parts2 == Append(parts1, Piece(doc.len, 0, 0))
        total2 == total1 + doc.len
        sep == total2 < max_chars /\ total2 + SeparatorLen < max_chars
    IN IF over_header
       THEN [parts |-> parts, included |-> included, total |-> total_chars]
       ELSE IF total1 + doc.len > max_chars
       THEN [parts |-> IF Meaningful(remaining_chars)
                       THEN Append(parts1,
                                Piece(remaining_chars + MarkerLen, 0, 1))
                       ELSE parts1,
             included |-> included1, total |-> total1]
       ELSE context_loop(results, i + 1, max_chars,
                IF sep THEN Append(parts2, Piece(SeparatorLen, 2, 2))
                ELSE parts2,
                included1,
                IF sep THEN total2 + SeparatorLen ELSE total2)

\* assemble_context_window: the length of the text before the statistics
\* line, whether the line is appended, and the length of what is returned
assemble_context_window(results, max_tokens) ==
    LET max_chars == max_tokens * ESTIMATED_CHARS_PER_TOKEN
        r == context_loop(results, 1, max_chars, <<>>, {}, 0)
        context == JoinStripLen(r.parts)
        stats == StatsLen(Cardinality(r.included), r.total)
        with_stats == 10 * (r.total + stats) < 11 * max_chars
    IN IF results = <<>>
       THEN [context |-> NoContextLen, stats |-> FALSE,
             returned |-> NoContextLen, max_chars |-> max_chars]
       ELSE [context |-> context, stats |-> with_stats,
             returned |-> IF with_stats THEN context + stats ELSE context,
             max_chars |-> max_chars]

\* context_parts of assemble_context_window when its loop has ended
context_parts(results, max_tokens) ==
    context_loop(results, 1, max_tokens * ESTIMATED_CHARS_PER_TOKEN,
                 <<>>, {}, 0).parts

\* token budgets, with the retriever's 2000 among them
TokenBudgets == {50, 2000}

\* titles of 3 characters; no date, "May" or "September"; contents that
\* fill a budget to just below its end among them
ContextDocs ==
    [source : {3, 4}, date : {0, 3, 9}, len : {40, 160, 7960}]

DocLists == UNION {[1..k -> ContextDocs] : k \in 0..MaxDocs}

ContextInit ==
    /\ WorkflowIdle
    /\ fs = EmptyDir
    /\ index = IndexedPosts
    /\ \E results \in DocLists, max_tokens \in TokenBudgets :
         call = [fn |-> "assemble_context_window", results |-> results,
                 max_tokens |-> max_tokens, done |-> FALSE,
                 out |-> [context |-> 0, stats |-> FALSE, returned |-> 0,
                          max_chars |-> 0],
                 parts |-> <<>>]

AssembleCall ==
    /\ call.fn = "assemble_context_window"
    /\ ~call.done
    /\ call' = [call EXCEPT
                  !.done = TRUE,
                  !.out = assemble_context_window(call.results,
                                                  call.max_tokens),
                  !.parts = context_parts(call.results, call.max_tokens)]
    /\ UNCHANGED <<workflow_vars, fs, index>>

ContextSpec == ContextInit /\ [][AssembleCall]_vars

\* C17: the returned text has at most max_tokens*4 characters before the
\* statistics line and at most 110% of that including it
C17_ContextWithinBudget ==
    (call.fn = "assemble_context_window" /\ call.done) =>
        /\ call.out.context <= call.out.max_chars
        /\ 10 * call.out.returned <= 11 * call.out.max_chars

\* the kinds of piece in context_parts
IsHeader(piece) == piece.lead = 1 /\ piece.trail = 1

IsContent(piece) == piece.lead = 0 /\ piece.trail = 0

IsTruncated(piece) == piece.lead = 0 /\ piece.trail = 1

IsTracked(piece) == ~IsTruncated(piece)

\* the documents included in full, the truncated one, total_chars
FullParts == SelectSeq(call.parts, IsContent)

CutParts == SelectSeq(call.parts, IsTruncated)

TrackedChars == SumLen(SelectSeq(call.parts, IsTracked))

\* the loop stopped at a document whose header was placed, or was not due,
\* and whose content exceeded what was left of the budget
ContentOverflowed ==
    /\ call.fn = "assemble_context_window" /\ call.done
    /\ Len(FullParts) < Len(call.results)
    /\ LET stopper == call.results[Len(FullParts) + 1]
           tracked == SelectSeq(call.parts, IsTracked)
       IN /\ \/ \E i \in 1..Len(FullParts) :
                    call.results[i].source = stopper.source
             \/ tracked # <<>> /\ IsHeader(tracked[Len(tracked)])
          /\ TrackedChars + stopper.len > call.out.max_chars

\* C25 (as claimed): the document whose content exceeds the remaining budget
\* is included truncated with the marker, nothing follows it, and every
\* document before it is included in full, in rank order
C25_OverflowingDocTruncated ==
    (call.fn = "assemble_context_window" /\ call.done) =>
        /\ \A i \in 1..Len(FullParts) : FullParts[i].len = call.results[i].len
        /\ ContentOverflowed =>
               /\ Len(CutParts) = 1
               /\ IsTruncated(call.parts[Len(call.parts)])

\* C25 (amended): the overflowing document is included truncated, with the
\* marker, only when more than 100 characters are left after 50 are set
\* aside, and is left out otherwise; either way nothing follows it, and
\* every document before it is included in full, in rank order
C25_OverflowingDocTruncatedIfRoom ==
    (call.fn = "assemble_context_window" /\ call.done) =>
        LET remaining_chars == call.out.max_chars - TrackedChars - 50
        IN /\ Len(FullParts) <= Len(call.results)
           /\ \A i \in 1..Len(FullParts) :
                  FullParts[i].len = call.results[i].len
           /\ Len(CutParts) <= 1
           /\ Len(CutParts) = 1 <=> (ContentOverflowed /\ remaining_chars > 100)
           /\ Len(CutParts) = 1 =>
                  /\ IsTruncated(call.parts[Len(call.parts)])
                  /\ CutParts[1].len = remaining_chars + MarkerLen
                  /\ remaining_chars
                         < call.results[Len(FullParts) + 1].len

\* a first document in full and a second one truncated
C25_Witness ==
    /\ ContentOverflowed
    /\ Len(call.results) = 2
    /\ Len(FullParts) = 1
    /\ Len(CutParts) = 1

-----------------------------------------------------------------------------
(* retrieval.py: expand_query, retrieve_relevant_context,                   *)
(* _deduplicate_results, _rerank_results                                    *)

\* A retrieved document: id tells the objects of one list apart, prefix
\* stands for page_content[:200], scores are in thousandths, days_old is
\* the age of metadata["date"] (-1 without a date), matches the number of
\* query terms found in the content, words len(page_content.split()).
Hit(prefix, relevance_score, days_old) ==
    [id |-> 0, prefix |-> prefix, relevance_score |-> relevance_score,
     days_old |-> days_old, matches |-> 1, words |-> 70, final_score |-> 0]

\* hash(): equal prefixes hash alike, and unequal ones may as well
Hash(prefix) == prefix % 2

\* `if content_hash not in seen_content`
NotSeen(seen_content, content_hash) == content_hash \notin seen_content

\* the for loop of _deduplicate_results from document i on
RECURSIVE dedup_loop(_, _, _, _)
dedup_loop(results, i, seen_content, unique_results) ==
    IF i > Len(results) THEN unique_results
    ELSE LET content_hash == Hash(results[i].prefix)
         IN IF NotSeen(seen_content, content_hash)
            THEN dedup_loop(results, i + 1, seen_content \cup {content_hash},
                            Append(unique_results, results[i]))
            ELSE dedup_loop(results, i + 1, seen_content, unique_results)

\* mutation of deduplicate_results: the loop passes over the first document
deduplicate_results_skipfirst(results) == dedup_loop(results, 2, {}, <<>>)

\* _deduplicate_results
deduplicate_results(results) == dedup_loop(results, 1, {}, <<>>)

Min(a, b) == IF a < b THEN a ELSE b

Max(a, b) == IF a > b THEN a ELSE b

\* final_score of _rerank_results, in thousandths
final_score(doc) ==
    LET recency_boost == IF doc.days_old < 0 THEN 0
                         ELSE IF doc.days_old < 30 THEN 50
                         ELSE IF doc.days_old < 365 THEN 20
                         ELSE 0
        keyword_boost == Min(doc.matches * 20, 100)
        length_boost == Max(0, Min(50, doc.words - 50))
    IN doc.relevance_score + recency_boost + keyword_boost + length_boost

\* mutation of StaysAhead: a later document overtakes an equal earlier one
StaysAhead_strict(earlier, later) == earlier.final_score > later.final_score

\* list.sort(key=final_score, reverse=True) keeps an earlier document ahead
\* of a later one unless the later one's key is greater
StaysAhead(earlier, later) == earlier.final_score >= later.final_score

\* the sorted list with one more document, which came later in the input
RECURSIVE sort_insert(_, _)
sort_insert(sorted, doc) ==
    IF sorted = <<>> THEN <<doc>>
    ELSE IF StaysAhead(sorted[1], doc)
    THEN <<sorted[1]>> \o sort_insert(Tail(sorted), doc)
    ELSE <<doc>> \o sorted

RECURSIVE sort_descending(_, _)
sort_descending(results, sorted) ==
    IF results = <<>> THEN sorted
    ELSE sort_descending(Tail(results), sort_insert(sorted, results[1]))

\* _rerank_results: every document gets its final_score, then the sort
rerank_results(results) ==
    sort_descending([i \in 1..Len(results) |->
                        [results[i] EXCEPT !.final_score =
                                               final_score(results[i])]],
                    <<>>)

\* mutation of expand_query: a failed expansion returns no query at all
expand_query_nofallback(expansion) ==
    IF expansion.raises THEN 0 ELSE 1 + Min(expansion.lines, 3)

\* expand_query: the number of queries returned, the original one first;
\* expansion.lines is the number of non-blank lines of the completion
expand_query(expansion) ==
    IF expansion.raises THEN 1 ELSE 1 + Min(expansion.lines, 3)

\* all_results after the multi-query loop over queries 1..n; search[q] is
\* what vector_store.similarity_search does for query q
RECURSIVE all_results(_, _, _)
all_results(search, q, n) ==
    IF q > n THEN <<>>
    ELSE (IF search[q].raises THEN <<>> ELSE search[q].hits)
         \o all_results(search, q + 1, n)

\* retrieve_relevant_context(query, top_k, expand_queries=True); env says
\* what the completion, the searches and the two list stages do
retrieve_relevant_context(env, top_k) ==
    LET queries == expand_query(env.expansion)
        found == all_results(env.search, 1, queries)
        unique_results == deduplicate_results(found)
        reranked_results == rerank_results(unique_results)
    IN IF found = <<>>
       THEN [raised |-> FALSE, results |-> <<>>]
       ELSE IF env.dedup_raises \/ env.rerank_raises
       THEN \* except Exception: return []
            [raised |-> FALSE, results |-> <<>>]
       ELSE [raised |-> FALSE,
             results |-> SubSeq(reranked_results, 1,
                                Min(top_k, Len(reranked_results)))]

\* the original query and expanded_queries[:3]
QueryLimit == 4

RankDocs ==
    {Hit(prefix, relevance_score, days_old) :
        prefix \in 1..3, relevance_score \in {500, 520},
        days_old \in {-1, 100}}

\* result lists; the documents of a list are distinct objects
HitLists ==
    UNION {{[i \in 1..k |-> [xs[i] EXCEPT !.id = i]] :
               xs \in [1..k -> RankDocs]} : k \in 0..MaxHits}

\* a similarity search raises, matches nothing, or returns documents
SearchOutcomes ==
    {[raises |-> TRUE, hits |-> <<>>],
     [raises |-> FALSE, hits |-> <<>>],
     [raises |-> FALSE, hits |-> <<Hit(1, 500, 100)>>],
     [raises |-> FALSE, hits |-> <<Hit(2, 520, -1), Hit(3, 520, 100)>>]}

\* the expansion completion: the call raises, or returns so many lines
Expansions ==
    {[raises |-> TRUE, lines |-> 0]}
    \cup {[raises |-> FALSE, lines |-> n] : n \in {0, 2, 4}}

RetrievalEnvs ==
    [expansion : Expansions, search : [1..QueryLimit -> SearchOutcomes],
     dedup_raises : BOOLEAN, rerank_raises : BOOLEAN]

RetrievalInit ==
    /\ WorkflowIdle
    /\ fs = EmptyDir
    /\ index = IndexedPosts
    /\ \/ \E xs \in HitLists :
            call = [fn |-> "_deduplicate_results", xs |-> xs,
                    done |-> FALSE, once |-> <<>>, twice |-> <<>>]
       \/ \E xs \in HitLists :
            call = [fn |-> "_rerank_results", xs |-> xs, done |-> FALSE,
                    out |-> <<>>]
       \/ \E env \in RetrievalEnvs, top_k \in {1, 5} :
            call = [fn |-> "retrieve_relevant_context", env |-> env,
                    top_k |-> top_k, done |-> FALSE,
                    out |-> [raised |-> FALSE, results |-> <<>>]]

\* _deduplicate_results on xs, and again on what it returned
DedupCall ==
    /\ call.fn = "_deduplicate_results"
    /\ ~call.done
    /\ call' = [call EXCEPT
                  !.done = TRUE,
                  !.once = deduplicate_results(call.xs),
                  !.twice = deduplicate_results(deduplicate_results(call.xs))]
    /\ UNCHANGED <<workflow_vars, fs, index>>

RerankCall ==
    /\ call.fn = "_rerank_results"
    /\ ~call.done
    /\ call' = [call EXCEPT !.done = TRUE, !.out = rerank_results(call.xs)]
    /\ UNCHANGED <<workflow_vars, fs, index>>

RetrieveCall ==
    /\ call.fn = "retrieve_relevant_context"
    /\ ~call.done
    /\ call' = [call EXCEPT
                  !.done = TRUE,
                  !.out = retrieve_relevant_context(call.env, call.top_k)]
    /\ UNCHANGED <<workflow_vars, fs, index>>

RetrievalNext ==
    \/ DedupCall
    \/ RerankCall
    \/ RetrieveCall

RetrievalSpec == RetrievalInit /\ [][RetrievalNext]_vars

\* the queries retrieve_relevant_context searched
Searched == 1..expand_query(call.env.expansion)

\* some stage inside the call raised
StageRaised ==
    \/ call.env.expansion.raises
    \/ \E q \in Searched : call.env.search[q].raises
    \/ /\ \E q \in Searched : call.env.search[q].hits # <<>>
       /\ call.env.dedup_raises \/ call.env.rerank_raises

\* C18 (as claimed): the call never raises, and an exception in any stage,
\* or a query without matches, yields the empty list
C18_AnyStageErrorYieldsEmpty ==
    (call.fn = "retrieve_relevant_context" /\ call.done) =>
        /\ ~call.out.raised
        /\ StageRaised => call.out.results = <<>>
        /\ (\A q \in Searched : call.env.search[q].hits = <<>>) =>
               call.out.results = <<>>

\* C18 (amended): the call never raises; an exception in deduplication or
\* re-ranking, or no search returning a match, yields the empty list; a
\* failed expansion leaves the original query alone to be searched, and a
\* failed search is skipped: the result is the top_k of the re-ranked,
\* deduplicated matches of the searches that did not fail
C18_ListStageErrorYieldsEmpty ==
    (call.fn = "retrieve_relevant_context" /\ call.done) =>
        LET ok == {q \in Searched : ~call.env.search[q].raises}
            matched == {q \in ok : call.env.search[q].hits # <<>>}
        IN /\ ~call.out.raised
           /\ call.env.expansion.raises => Searched = {1}
           /\ matched = {} => call.out.results = <<>>
           /\ (call.env.dedup_raises \/ call.env.rerank_raises) =>
                  call.out.results = <<>>
           /\ (matched # {} /\ ~call.env.dedup_raises
               /\ ~call.env.rerank_raises) =>
                  /\ call.out.results # <<>>
                  /\ Len(call.out.results) <= call.top_k
                  /\ \A i \in 1..Len(call.out.results) :
                        \E q \in matched :
                           \E j \in 1..Len(call.env.search[q].hits) :
                              call.env.search[q].hits[j].prefix
                                  = call.out.results[i].prefix

\* the expansion failed, yet the original query's matches are returned
C18_Witness ==
    /\ call.fn = "retrieve_relevant_context" /\ call.done
    /\ call.env.expansion.raises
    /\ call.env.search[1].hits # <<>>
    /\ call.out.results # <<>>

\* C19: the output of _rerank_results holds the input's documents in order
\* of non-increasing final_score, and documents with equal final_score keep
\* their input order
C19_RerankSortedAndStable ==
    (call.fn = "_rerank_results" /\ call.done) =>
        /\ Len(call.out) = Len(call.xs)
        /\ \A i \in 1..Len(call.xs) :
              \E j \in 1..Len(call.out) :
                 call.out[j] = [call.xs[i] EXCEPT
                                   !.final_score = final_score(call.xs[i])]
        /\ \A i, j \in 1..Len(call.out) :
              i < j =>
                 /\ call.out[i].final_score >= call.out[j].final_score
                 /\ call.out[i].final_score = call.out[j].final_score =>
                        call.out[i].id < call.out[j].id

\* three documents, the first two with equal scores, the third above both
C19_Witness ==
    /\ call.fn = "_rerank_results" /\ call.done
    /\ Len(call.xs) = 3
    /\ final_score(call.xs[1]) = final_score(call.xs[2])
    /\ call.xs[1].prefix # call.xs[2].prefix
    /\ final_score(call.xs[3]) > final_score(call.xs[1])
    /\ call.out[1].id = 3 /\ call.out[2].id = 1 /\ call.out[3].id = 2

\* C20: _deduplicate_results applied to its own output returns that output
C20_DedupIdempotent ==
    (call.fn = "_deduplicate_results" /\ call.done) =>
        call.twice = call.once

\* a list with a repeated document, which the first pass shortened
C20_Witness ==
    /\ call.fn = "_deduplicate_results" /\ call.done
    /\ Len(call.xs) = 3
    /\ Len(call.once) = 2
    /\ call.twice = call.once

-----------------------------------------------------------------------------
(* EvaluatorAgent: mechanical validation of one draft *)

RECURSIVE Repeat(_, _)
\* k copies of a line
Repeat(line, k) == IF k = 0 THEN <<>> ELSE <<line>> \o Repeat(line, k - 1)

\* a markdown body with h1s "# " lines and h2s "## " lines of three tokens
\* each, and prose that brings len(content.split()) to words
MarkdownBody(h1s, h2s, words) ==
    Repeat(L("h1", 3), h1s) \o <<L("text", words - 3 * (h1s + h2s))>>
    \o Repeat(L("h2", 3), h2s)

\* the word bounds of the two scenarios
ScenarioSpecs ==
    {[min_words |-> 100, max_words |-> 200],
     [min_words |-> 500, max_words |-> 1000]}

ScenarioWords == {40, 120, 600}

ValidationInit ==
    /\ WorkflowIdle
    /\ fs = EmptyDir
    /\ index = IndexedPosts
    /\ \E h1s \in 0..MaxTitles, h2s \in 0..3, words \in ScenarioWords,
          word_count \in ScenarioWords, sp \in ScenarioSpecs :
         call = [fn |-> "evaluate_draft", h1s |-> h1s, h2s |-> h2s,
                 words |-> words, sp |-> sp, done |-> FALSE,
                 d |-> [keys |-> DraftKeys,
                        content |-> MarkdownBody(h1s, h2s, words),
                        word_count |-> word_count, iteration |-> 1,
                        error |-> ""],
                 basic |-> perform_basic_validation(NoDraft, sp),
                 out |-> NoEval]

\* evaluate_draft on the draft, r the outcome of its model call
ValidateCall ==
    /\ call.fn = "evaluate_draft"
    /\ ~call.done
    /\ \E r \in EvalChats :
         call' = [call EXCEPT
                    !.done = TRUE,
                    !.basic = perform_basic_validation(call.d, call.sp),
                    !.out = evaluate_draft(call.d, call.sp, r)]
    /\ UNCHANGED <<workflow_vars, fs, index>>

ValidationSpec == ValidationInit /\ [][ValidateCall]_vars

\* the checks as the draft's make-up decides them
StructureOk == call.h1s >= 1 /\ call.h2s >= 2 /\ call.words >= 100

WordCountOk ==
    call.sp.min_words <= call.d.word_count
    /\ call.d.word_count <= call.sp.max_words

MarkdownOk == call.h1s + call.h2s >= 1

\* the tags of the feedback parts
FeedbackTags ==
    {call.basic.feedback[i].tag : i \in 1..Len(call.basic.feedback)}

\* the draft of the scenarios: one title, two sections, 120 words
ScenarioDraft ==
    /\ call.fn = "evaluate_draft" /\ call.done
    /\ call.h1s = 1 /\ call.h2s = 2 /\ call.words = 120
    /\ call.d.word_count = 120

\* C21: validation passes exactly when the three checks pass, the feedback
\* names exactly the failing checks, and the scenario draft passes under
\* 100-200 and fails only the word count, with the range, under 500-1000
C21_ValidationNamesFailingChecks ==
    (call.fn = "evaluate_draft" /\ call.done) =>
        /\ call.basic.checks =
               [structure |-> StructureOk, word_count |-> WordCountOk,
                markdown |-> MarkdownOk]
        /\ call.basic.passed <=> (StructureOk /\ WordCountOk /\ MarkdownOk)
        /\ call.basic.passed <=> FeedbackTags = {"All basic checks passed"}
        /\ ~call.basic.passed =>
               /\ ("Word count not in range" \in FeedbackTags)
                      <=> ~WordCountOk
               /\ ("Missing proper introduction, body, or conclusion sections"
                      \in FeedbackTags) <=> ~StructureOk
               /\ ("Markdown formatting issues detected" \in FeedbackTags)
                      <=> ~MarkdownOk
               /\ "All basic checks passed" \notin FeedbackTags
        /\ (ScenarioDraft /\ call.sp.min_words = 100) => call.basic.passed
        /\ (ScenarioDraft /\ call.sp.min_words = 500) =>
               /\ ~call.basic.passed
               /\ call.basic.checks.structure /\ call.basic.checks.markdown
               /\ call.basic.feedback =
                      <<[tag |-> "Word count not in range", n |-> 7,
                         args |-> <<120, 500, 1000>>]>>

\* the scenario draft validated under 500-1000
C21_Witness ==
    /\ ScenarioDraft
    /\ call.sp.min_words = 500
    /\ ~call.basic.passed
    /\ ~call.out.approved

\* C22 (as claimed): a draft with zero or with more than one top-level
\* heading fails mechanical validation and is rejected
C22_ExactlyOneTitle ==
    (call.fn = "evaluate_draft" /\ call.done /\ call.h1s # 1) =>
        ~call.basic.passed /\ ~call.out.approved

\* C22 (amended): a draft without a top-level heading fails mechanical
\* validation and is rejected whatever its sections and word count; a draft
\* with more than one passes the mechanical checks when it has two
\* sections, 100 words and a word count within the bounds
C22_AtLeastOneTitle ==
    (call.fn = "evaluate_draft" /\ call.done) =>
        /\ call.h1s = 0 =>
               /\ ~call.basic.checks.structure
               /\ ~call.basic.passed
               /\ ~call.out.approved /\ ~call.out.llm_called
        /\ (call.h1s > 1 /\ call.h2s >= 2 /\ call.words >= 100
            /\ WordCountOk) => call.basic.passed

\* a draft without title but with two sections and 120 words in range
C22_Witness ==
    /\ call.fn = "evaluate_draft" /\ call.done
    /\ call.h1s = 0 /\ call.h2s = 2 /\ call.words = 120
    /\ call.d.word_count = 120 /\ call.sp.min_words = 100
    /\ ~call.basic.passed /\ ~call.out.approved

-----------------------------------------------------------------------------
(* fetcher.py: FeedFetcher.fetch_feeds and its concurrent fetch tasks *)

\* what fetching a feed comes to: articles, an error that fetch_single_feed
\* catches, or an exception that leaves the task (cancellation)
FeedOutcomes ==
    {[kind |-> "ok", n |-> 1], [kind |-> "ok", n |-> 2],
     [kind |-> "error", n |-> 0], [kind |-> "cancelled", n |-> 0]}

FeedLists == UNION {[1..k -> FeedOutcomes] : k \in 0..MaxFeeds}

\* the articles fetch_single_feed builds for feed k
FeedArticles(k, n) == [j \in 1..n |-> [feed |-> k, entry |-> j]]

\* fetch_single_feed for feed k: the value its task ends with
fetch_single_feed(k, outcome) ==
    CASE outcome.kind = "ok" ->
             [state |-> "list", items |-> FeedArticles(k, outcome.n)]
      [] outcome.kind = "error" ->
             \* except Exception: return []
             [state |-> "list", items |-> <<>>]
      [] OTHER -> [state |-> "exception", items |-> <<>>]

PendingTask == [state |-> "pending", items |-> <<>>]

\* feeds[i:i+batch_size], as the indices of the feeds
Batch(feeds, i, batch_size) ==
    {k \in 1..Len(feeds) : i < k /\ k <= i + batch_size}

\* variant: gather hands the results over in order of completion
gather_slot_arrival(task, arrived) == arrived + 1

\* asyncio.gather puts the result of the task-th awaitable at position task
gather_slot(task, arrived) == task

RECURSIVE extend_all(_, _)
\* `for result in results: if isinstance(result, list): articles.extend`
extend_all(articles, results) ==
    IF results = <<>> THEN articles
    ELSE extend_all(IF results[1].state = "list"
                    THEN articles \o results[1].items ELSE articles,
                    Tail(results))

FetchInit ==
    /\ WorkflowIdle
    /\ fs = EmptyDir
    /\ index = IndexedPosts
    /\ \E feeds \in FeedLists, batch_size \in {1, 2, 5} :
         call = [fn |-> "fetch_feeds", feeds |-> feeds,
                 batch_size |-> batch_size, i |-> 0, at |-> "batch",
                 running |-> {}, results |-> <<>>, arrived |-> 0,
                 articles |-> <<>>, order |-> <<>>]

\* the tasks of the next batch are created and gathered
StartBatch ==
    /\ call.fn = "fetch_feeds"
    /\ call.at = "batch"
    /\ call.i < Len(call.feeds)
    /\ LET batch == Batch(call.feeds, call.i, call.batch_size)
       IN call' = [call EXCEPT
                     !.at = "gather",
                     !.running = batch,
                     !.arrived = 0,
                     !.results = [t \in 1..Cardinality(batch) |->
                                     PendingTask]]
    /\ UNCHANGED <<workflow_vars, fs, index>>

\* one of the running tasks finishes, in any order
TaskEnds ==
    /\ call.fn = "fetch_feeds"
    /\ call.at = "gather"
    /\ \E k \in call.running :
         call' = [call EXCEPT
                    !.running = @ \ {k},
                    !.arrived = @ + 1,
                    !.order = Append(@, k),
                    !.results[gather_slot(k - call.i, call.arrived)] =
                        fetch_single_feed(k, call.feeds[k])]
    /\ UNCHANGED <<workflow_vars, fs, index>>

\* gather returns when every task has ended; the results are collected
GatherReturns ==
    /\ call.fn = "fetch_feeds"
    /\ call.at = "gather"
    /\ call.running = {}
    /\ call' = [call EXCEPT
                  !.at = "batch",
                  !.i = @ + call.batch_size,
                  !.results = <<>>,
                  !.articles = extend_all(@, call.results)]
    /\ UNCHANGED <<workflow_vars, fs, index>>

\* `return articles`
FetchReturns ==
    /\ call.fn = "fetch_feeds"
    /\ call.at = "batch"
    /\ call.i >= Len(call.feeds)
    /\ call' = [call EXCEPT !.at = "returned"]
    /\ UNCHANGED <<workflow_vars, fs, index>>

FetchNext ==
    \/ StartBatch
    \/ TaskEnds
    \/ GatherReturns
    \/ FetchReturns

FetchSpec == FetchInit /\ [][FetchNext]_vars

RECURSIVE ArticlesInFeedOrder(_, _)
\* the articles of the successfully fetched feeds from feed k on
ArticlesInFeedOrder(feeds, k) ==
    IF k > Len(feeds) THEN <<>>
    ELSE (IF feeds[k].kind = "ok" THEN FeedArticles(k, feeds[k].n)
          ELSE <<>>) \o ArticlesInFeedOrder(feeds, k + 1)

\* C23: whatever the order in which the fetches of a batch end, the list
\* returned holds every article of every successfully fetched feed once,
\* grouped in feed order, and nothing of a failed feed
C23_ArticlesInFeedOrder ==
    (call.fn = "fetch_feeds" /\ call.at = "returned") =>
        call.articles = ArticlesInFeedOrder(call.feeds, 1)

\* a batch whose second feed ended before its first, with a failed feed
\* next to feeds that delivered
C23_Witness ==
    /\ call.fn = "fetch_feeds" /\ call.at = "returned"
    /\ Len(call.feeds) = 3 /\ call.batch_size = 5
    /\ call.order = <<2, 3, 1>>
    /\ call.feeds[1].kind = "ok" /\ call.feeds[2].kind = "ok"
    /\ call.feeds[3].kind = "error"
    /\ Len(call.articles) = call.feeds[1].n + call.feeds[2].n

TypeOK ==
    /\ pc \in {"idle", "retrieve", "compose", "iter", "eval", "exhausted",
               "ingest", "done"}
    /\ max_iterations \in 0..MaxCap
    /\ iteration \in 0..MaxCap

-----------------------------------------------------------------------------
(* Properties *)

\* the mechanical checks of the evaluator, applied to a draft
MechanicalChecksPass(d) ==
    /\ check_structure(d.content)
    /\ check_word_count(d.word_count, spec)
    /\ check_markdown_formatting(d.content)

\* the run has returned
Returned == pc = "done"

\* C1 (as claimed): a run whose loop exhausted the cap with every
\* evaluation rejecting and whose ingestion succeeded does not report the
\* approval status 'approved'.
C1_ExhaustedNotReportedApproved ==
    (Returned /\ result.success /\ h.exhausted /\ max_iterations >= 1)
        => result.approval_status # "approved"

\* C2: for every cap N >= 1 the loop performs at most N evaluations and at
\* most N-1 refinements, and the loop returns.
C2_LoopBoundedAndTerminates ==
    /\ [](max_iterations >= 1 =>
            /\ h.evaluate <= max_iterations
            /\ h.refine <= max_iterations - 1)
    /\ <>(pc = "ingest")

C2_Witness ==
    /\ pc = "ingest"
    /\ max_iterations >= 2
    /\ h.evaluate = max_iterations
    /\ h.refine = max_iterations - 1

\* C3 (as claimed): whenever the loop ends by exhaustion the draft it
\* returns has an iteration field equal to the cap.
C3_ExhaustedIterationIsCap ==
    (h.exhausted /\ max_iterations >= 1)
        => final_draft.iteration = max_iterations

\* C3 (amended): whenever the loop ends by exhaustion the iteration field of
\* the draft it returns is 1 plus the number of refinement passes that
\* succeeded; for a cap N >= 1 it is at most N, and it is N when N-1
\* passes succeeded.
C3_ExhaustedIterationCountsRefinements ==
    h.exhausted =>
        /\ final_draft.iteration = 1 + h.refined_ok
        /\ (max_iterations >= 1 => final_draft.iteration <= max_iterations)
        /\ (h.refined_ok = max_iterations - 1
                => final_draft.iteration = max_iterations)

C3_Witness ==
    /\ h.exhausted
    /\ max_iterations >= 2
    /\ h.refined_ok >= 1
    /\ h.refine > h.refined_ok
    /\ final_draft.iteration < max_iterations

ApprovedSpellings == {"APPROVED", "approved", "Approved"}

\* C5: an evaluation approves only when all mechanical checks pass and the
\* model's response begins with APPROVED (in any letter case); a response
\* with another prefix, a REJECTED response or a failed model call rejects.
C5_ApprovalFailClosed ==
    /\ lastEval.approved =>
        /\ MechanicalChecksPass(current_draft)
        /\ lastEval.llm_called
        /\ lastEval.error = ""
        /\ lastEval.response # <<>>
        /\ lastEval.response[1].tag \in ApprovedSpellings
    /\ (h.evaluate > 0 /\ lastEval.error # "") => ~lastEval.approved

C5_Witness ==
    /\ lastEval.approved
    /\ lastEval.response[1].tag = "approved"
    /\ pc = "ingest"

\* C6: a model call of the evaluator is made only for a draft whose
\* mechanical checks all passed; a draft failing a check is rejected
\* without a model call.
C6_NoModelCallOnMechanicalFailure ==
    (h.evaluate > 0 /\ pc # "eval") =>
        /\ lastEval.llm_called => MechanicalChecksPass(current_draft)
        /\ ~MechanicalChecksPass(current_draft) =>
              /\ ~lastEval.llm_called
              /\ ~lastEval.approved

C6_Witness ==
    /\ h.evaluate > 0
    /\ pc = "iter"
    /\ ~MechanicalChecksPass(current_draft)
    /\ ~lastEval.llm_called
    /\ ~lastEval.approved

\* C7 (as claimed): if the retrieval stage had an error (index query or
\* synthesis model call) the run returns success=false at once and none of
\* composition, evaluation, refinement or ingestion is invoked.
C7_RetrievalErrorFailsRun ==
    h.retrieval_error # "" =>
        /\ Returned
        /\ ~result.success
        /\ h.compose = 0 /\ h.evaluate = 0 /\ h.refine = 0 /\ h.ingest = 0

\* C8: if compose_draft returns a draft carrying an error field the run
\* returns success=false at once: composition ran once, and no evaluation,
\* refinement or ingestion is invoked.
C8_CompositionErrorFailsRun ==
    HasError(draft) =>
        /\ Returned
        /\ ~result.success
        /\ h.compose = 1
        /\ h.evaluate = 0 /\ h.refine = 0 /\ h.ingest = 0

C8_Witness ==
    /\ HasError(draft)
    /\ Returned
    /\ ~result.success

\* C9 (as claimed): an infrastructure error of the model endpoint that
\* survives the retry budget, in any stage, aborts the run: success=false
\* and no later stage, ingestion included, is executed.
C9_InfraErrorAborts ==
    infra # {} =>
        /\ Returned
        /\ ~result.success
        /\ h.ingest = 0

\* C9 (amended): such an error aborts the run when it is raised during
\* composition (success=false, no evaluation, refinement or ingestion); an
\* error raised during refinement or evaluation is absorbed by the stage and
\* the run goes on to ingestion.
C9_InfraErrorAbortsInComposition ==
    /\ "compose" \in infra =>
          /\ Returned
          /\ ~result.success
          /\ h.evaluate = 0 /\ h.refine = 0 /\ h.ingest = 0
    /\ (Returned /\ infra \cap {"refine", "evaluate"} # {}) => h.ingest = 1

C9_Witness ==
    /\ "compose" \in infra
    /\ Returned
    /\ ~result.success

\* C10 (as claimed): a rejection that is followed by another iteration is
\* followed by exactly one refiner invocation before the next evaluation,
\* with the rejection's feedback as its feedback argument.
C10_RejectionIsRefinedOnce ==
    (pc = "eval" /\ h.evaluate >= 1) =>
        /\ lastRefine.since = 1
        /\ lastRefine.feedback.text = lastEval.feedback

\* C16: when a run returns success, the accepted artifact has been written
\* to a file and the vector store holds its content
C16_SuccessfulRunIsIndexed ==
    (Returned /\ result.success) =>
        /\ result.file_path \in DOMAIN fs
        /\ fs[result.file_path].content = StripLeft(result.final_content.content)
        /\ result.final_content.content \in index

\* the body of a draft's content: what follows the frontmatter block that
\* refine_draft separates from it
BodyOf(content) ==
    SubSeq(content, Len(Frontmatter(content)) + 1, Len(content))

\* the word_count field counts the body stored in the same draft
CountsOwnBody(d) ==
    "word_count" \in d.keys => d.word_count = Words(BodyOf(d.content))

\* C26 (as claimed): in every draft that compose_draft or refine_draft
\* produced, word_count is the number of whitespace-separated words of the
\* body content stored in that draft
C26_WordCountIsBodyWords ==
    /\ h.compose >= 1 => CountsOwnBody(draft)
    /\ h.compose >= 1 => CountsOwnBody(current_draft)

\* a step of the loop in which refine_draft was called and failed
FailedRefinePass ==
    /\ pc = "iter"
    /\ h'.refine = h.refine + 1
    /\ lastRefine'.failed

\* C27: a failed refinement pass leaves the loop running and hands the
\* next evaluation the draft it was given, content, word_count, topic and
\* iteration unchanged, with an error field added
C27_FailedRefinementKeepsDraft ==
    [][FailedRefinePass =>
          /\ pc' = "eval"
          /\ current_draft'.keys = current_draft.keys \cup {"error"}
          /\ {"content", "word_count", "topic", "iteration"}
                 \subseteq current_draft'.keys
          /\ current_draft'.content = current_draft.content
          /\ current_draft'.word_count = current_draft.word_count
          /\ current_draft'.iteration = current_draft.iteration]_vars

\* a failed pass was followed by an evaluation of the kept draft
C27_Witness ==
    /\ lastRefine.failed
    /\ lastRefine.since = 0
    /\ h.refine >= 1
    /\ h.evaluate >= 2
    /\ "error" \in current_draft.keys
    /\ "content" \in current_draft.keys
    /\ current_draft.content # <<>>

\* a step of the loop in which evaluate_draft approved the current draft
ApprovingEvaluation ==
    /\ pc = "eval"
    /\ h'.evaluate = h.evaluate + 1
    /\ lastEval'.approved

\* the loop has returned to generate_blog_post
LoopReturned == pc \in {"ingest", "done"}

\* C28: an approval ends the loop at once with the approved draft as the
\* draft for ingestion, and after the loop has returned no refinement or
\* evaluation takes place and that draft does not change
C28_ApprovalEndsLoop ==
    /\ [][ApprovingEvaluation =>
             /\ pc' = "ingest"
             /\ final_draft' = current_draft
             /\ current_draft' = current_draft]_vars
    /\ [][LoopReturned =>
             /\ LoopReturned'
             /\ h'.refine = h.refine
             /\ h'.evaluate = h.evaluate
             /\ final_draft' = final_draft]_vars

\* a refined draft was approved and has been handed to ingestion
C28_Witness ==
    /\ Returned
    /\ lastEval.approved
    /\ h.refined_ok >= 1
    /\ h.ingest = 1
    /\ final_draft = lastRefine.output

\* C29 (as claimed): whatever the iteration cap, a draft reaches ingestion
\* only after evaluate_draft has been applied at least once in the run
C29_IngestedDraftWasEvaluated ==
    (pc = "ingest" \/ h.ingest >= 1) => h.evaluate >= 1

\* a WorkflowResult whose fields agree with its success flag
Consistent(res) ==
    IF res.success
    THEN /\ res.final_content # NoDraft
         /\ res.file_path # NoPath
         /\ res.error = ""
    ELSE /\ res.error # ""
         /\ res.final_content = NoDraft
         /\ res.file_path = NoPath
         /\ res.approval_status = "pending"

\* the steps of generate_blog_post at which a run can be
Steps == {"retrieve", "compose", "iter", "eval", "exhausted", "ingest"}

\* whatever a stage returned or raised, the run has a next step until it
\* returns
NoStageStops == ~Returned => ENABLED Next

\* C30: generate_blog_post does not raise, a run being at one of its
\* steps until it returns, and the WorkflowResult it returns is
\* consistent with its success flag
C30_ResultConsistent ==
    /\ ~Returned => pc \in Steps
    /\ Returned => Consistent(result)

\* a run that went through the loop and failed in ingestion
C30_Witness ==
    /\ Returned
    /\ ~result.success
    /\ h.ingest = 1
    /\ h.evaluate >= 1
    /\ result.iterations >= 1
    /\ result.error = "Ingestion failed"


====
